---------------------------- MODULE Spec2Model ----------------------------
(***************************************************************************)
(* Boundary-enforcement core of kleo-static-files:                         *)
(*   - safePath (server/utils/safe-path.ts), the path-confinement guard,   *)
(*     with the posix path functions it calls (normalize, resolve, join);  *)
(*   - rateLimit (server/middleware/rate-limit.ts), the sliding-window     *)
(*     limiter, its periodic sweep and its in-memory store;                *)
(*   - the upload and delete-file handlers of server/index.ts.             *)
(*                                                                         *)
(* A path is a sequence of one-character strings.  Three specifications    *)
(* share the variables: SpecPath applies safePath to every bounded input,  *)
(* SpecLimit runs the limiter under concurrent requests, a clock and the   *)
(* sweep timer, SpecFiles runs the file handlers over a small filesystem.  *)
(***************************************************************************)
EXTENDS Integers, Sequences, FiniteSets, TLC

\* ------------------------------------------------------------------ bounds
MaxPathLen == 7

\* The longest user path with a NUL character in it.
NulPathLen == 4

\* The characters user paths are built from.
Chars == {"/", ".", "a"}

\* The NUL character ("\0" in the source of a string).
NUL == "<NUL>"

\* sep of the posix path module.
sep == <<"/">>

\* safePath's "null" result: no path is equal to it.
Null == <<"null">>

\* ------------------------------------------------------- posix path module
RECURSIVE SplitFrom(_, _, _)
\* The segments of p between separators, cur being the segment under way.
SplitFrom(p, i, cur) ==
    IF i > Len(p) THEN <<cur>>
    ELSE IF p[i] = "/" THEN <<cur>> \o SplitFrom(p, i + 1, <<>>)
    ELSE SplitFrom(p, i + 1, Append(cur, p[i]))

Split(p) == SplitFrom(p, 1, <<>>)

RECURSIVE JoinSegs(_)
\* Segments joined with one separator between them.
JoinSegs(segs) ==
    IF Len(segs) = 0 THEN <<>>
    ELSE IF Len(segs) = 1 THEN segs[1]
    ELSE segs[1] \o sep \o JoinSegs(Tail(segs))

\* The absolute path spelling a sequence of names.
AbsPath(names) == sep \o JoinSegs(names)

DotDot == <<".", ".">>
Dot == <<".">>

RECURSIVE NormSegs(_, _, _)
\* normalizeString over the segments: "" and "." are dropped, ".." removes the
\* last kept segment unless there is none or it is ".." itself, and is then
\* kept only when allowAboveRoot.
NormSegs(segs, res, allowAboveRoot) ==
    IF Len(segs) = 0 THEN res
    ELSE LET s == Head(segs)
             rest == Tail(segs)
         IN  IF s = <<>> \/ s = Dot THEN NormSegs(rest, res, allowAboveRoot)
             ELSE IF s = DotDot
             THEN IF Len(res) > 0 /\ res[Len(res)] # DotDot
                  THEN NormSegs(rest, SubSeq(res, 1, Len(res) - 1), allowAboveRoot)
                  ELSE IF allowAboveRoot
                       THEN NormSegs(rest, Append(res, DotDot), allowAboveRoot)
                       ELSE NormSegs(rest, res, allowAboveRoot)
             ELSE NormSegs(rest, Append(res, s), allowAboveRoot)

normalizeString(p, allowAboveRoot) == JoinSegs(NormSegs(Split(p), <<>>, allowAboveRoot))

isAbsolute(p) == Len(p) > 0 /\ p[1] = "/"

\* path.normalize
normalize(p) ==
    IF Len(p) = 0 THEN Dot
    ELSE LET abs == isAbsolute(p)
             trailing == p[Len(p)] = "/"
             s == normalizeString(p, ~abs)
         IN  IF Len(s) = 0
             THEN (IF abs THEN sep ELSE IF trailing THEN <<".", "/">> ELSE Dot)
             ELSE (IF abs THEN sep ELSE <<>>) \o s \o (IF trailing THEN sep ELSE <<>>)

RECURSIVE ResolveFrom(_, _, _)
\* path.resolve's loop over its arguments from the right, the working
\* directory last, until the path built is absolute.
ResolveFrom(args, cwd, acc) ==
    IF isAbsolute(acc) THEN acc
    ELSE IF Len(args) = 0 THEN cwd \o sep \o acc
    ELSE LET p == args[Len(args)]
             rest == SubSeq(args, 1, Len(args) - 1)
         IN  IF Len(p) = 0 THEN ResolveFrom(rest, cwd, acc)
             ELSE ResolveFrom(rest, cwd, p \o sep \o acc)

\* process.cwd(): the server's working directory (always absolute).
Cwd == <<"/", "a">>

\* path.resolve(...args)
resolve(args) == sep \o normalizeString(ResolveFrom(args, Cwd, <<>>), FALSE)

\* path.join(a, b)
join(a, b) ==
    IF Len(a) = 0 /\ Len(b) = 0 THEN Dot
    ELSE IF Len(a) = 0 THEN normalize(b)
    ELSE IF Len(b) = 0 THEN normalize(a)
    ELSE normalize(a \o sep \o b)

startsWith(s, prefix) ==
    Len(prefix) <= Len(s) /\ SubSeq(s, 1, Len(prefix)) = prefix

\* ------------------------------------------------------------------ safePath
\* Mutant of UnderBase: the separator after the base is forgotten.
UnderBaseNoSep(resolvedPath, resolvedBase) == startsWith(resolvedPath, resolvedBase)

\* The containment test of safePath: resolvedPath starts with resolvedBase + sep.
UnderBase(resolvedPath, resolvedBase) == startsWith(resolvedPath, resolvedBase \o sep)

\* Mutant of safePath: the first draft of the guard, which resolves without
\* normalizing and has no "or equals base" case.
safePathNoEquals(base, userPath) ==
    LET resolvedBase == resolve(<<base>>)
        resolvedPath == resolve(<<base, userPath>>)
    IN  IF ~UnderBase(resolvedPath, resolvedBase) THEN Null ELSE resolvedPath

\* Mutant of safePath: only the spelling of userPath is screened (a leading
\* separator or "../"), not the resolved path.
safePathByPrefix(base, userPath) ==
    IF isAbsolute(userPath) \/ startsWith(userPath, <<".", ".", "/">>)
    THEN Null
    ELSE resolve(<<base, normalize(userPath)>>)

\* safePath returning the root joined with the normalized user path, which
\* keeps a trailing separator, in place of the resolved path.
safePathKeepsTrailing(base, userPath) ==
    LET normalizedUser == normalize(userPath)
        resolvedBase == resolve(<<base>>)
        resolvedPath == resolve(<<base, normalizedUser>>)
    IN  IF ~UnderBase(resolvedPath, resolvedBase) /\ resolvedPath # resolvedBase
        THEN Null
        ELSE IF Len(normalizedUser) > 1 /\ normalizedUser[Len(normalizedUser)] = "/"
        THEN resolvedPath \o sep
        ELSE resolvedPath

\* safePath raising on a containment failure in place of returning null.
safePathThrows(base, userPath) ==
    LET normalizedUser == normalize(userPath)
        resolvedBase == resolve(<<base>>)
        resolvedPath == resolve(<<base, normalizedUser>>)
    IN  IF ~UnderBase(resolvedPath, resolvedBase) /\ resolvedPath # resolvedBase
        THEN <<"<throws>">>
        ELSE resolvedPath

\* safePath without its containment test.
safePathUnchecked(base, userPath) == resolve(<<base, normalize(userPath)>>)

safePath(base, userPath) ==
    LET normalizedUser == normalize(userPath)
        resolvedBase == resolve(<<base>>)
        resolvedPath == resolve(<<base, normalizedUser>>)
    IN  IF ~UnderBase(resolvedPath, resolvedBase) /\ resolvedPath # resolvedBase
        THEN Null
        ELSE resolvedPath

\* getSitePath: the root directory of a site.
getSitePath(sitesRoot, name) == join(sitesRoot, name)

\* SF_SITES_ROOT: the default "./sites" (relative), an absolute directory, "/".
SitesRoots == {<<".", "/", "s">>, <<"/", "s">>, <<"/">>}

\* Site names (lowercase alphanumeric): one is a prefix of the other.
SiteNames == {<<"a">>, <<"a", "a">>}

\* Every string over Chars of length at most n.
PathsUpTo(n) == UNION {[1..k -> Chars] : k \in 0..n}

\* Every string of length at most n over Chars and NUL that has a NUL in it.
NulPaths(n) ==
    {p \in UNION {[1..k -> Chars \cup {NUL}] : k \in 1..n} :
        \E i \in 1..Len(p) : p[i] = NUL}

VARIABLES
    spBase,     \* safePath's base argument: a site's root directory
    spUser,     \* safePath's userPath argument
    spResult,   \* what the call returned; Unset before the call
    cfgWindow,  \* rateLimit(config): config.windowMs, 0 when not given
    cfgMax,     \* rateLimit(config): config.maxRequests, 0 when not given
    now,        \* Date.now(), in time units
    nextSweep,  \* when the setInterval timer of the sweep is next due
    requests,   \* the Map `requests`: a function from the keys present to timestamps
    req,        \* the HTTP requests in flight, by slot
    admitted,   \* history: per identity key, the times of its admissions still
                \* inside the limiter's window
    sites,      \* the sites table: a function from the names present to rows
    files,      \* the files on disk: a function from absolute paths to sizes
    dirs,       \* the directories on disk: a set of absolute paths
    freq,       \* the file requests (upload, delete file) in flight, by slot
    ledger,     \* history of the quota queries run directly on the sites table:
                \* the last one, and per site what was asked for in all
    useSyncScript,  \* USE_SYNC_SCRIPT: scripts/sync-caddy.ts exists
    routes,     \* the routes the proxy holds, in order
    sreq        \* the site requests (create site) in flight, by slot

pathVars == <<spBase, spUser, spResult>>
limitVars == <<cfgWindow, cfgMax, now, nextSweep, requests, req, admitted>>
fileVars == <<sites, files, dirs, freq>>
ledgerVars == <<ledger>>
siteVars == <<useSyncScript, routes, sreq>>
vars == <<pathVars, limitVars, fileVars, ledgerVars, siteVars>>

\* What the actions of one part leave alone: the variables of the other parts.
notPathVars == <<limitVars, fileVars, ledgerVars, siteVars>>
notLimitVars == <<pathVars, fileVars, ledgerVars, siteVars>>
notFileVars == <<pathVars, limitVars, ledgerVars, siteVars>>
notLedgerVars == <<pathVars, limitVars, files, dirs, freq, siteVars>>
notSiteVars == <<pathVars, limitVars, freq, ledgerVars>>

Unset == <<"unset">>


\* ------------------------------------------------------------ rate limiter
\* One time unit is one minute (60000 ms).
\* SF_RATE_LIMIT_WINDOW, here set to two minutes.
EnvWindow == 2

\* SF_RATE_LIMIT_MAX, here set to 2.
EnvMax == 2

\* The period of the sweep's setInterval: 5 * 60 * 1000 ms.
SweepEvery == 5

\* The clock stops here.
MaxTime == 6

\* What rateLimit is given as config.windowMs (0: not given) and
\* config.maxRequests (0: not given).
Configs ==
    { [windowMs |-> 0, maxRequests |-> 0],
      [windowMs |-> 3, maxRequests |-> 1] }

\* The request slots: at most this many requests are in flight together.
Reqs == {1, 2}

\* c.req.header(name) of a header the request does not carry: undefined.
Absent == "<undefined>"

\* The header sets a request may carry; a header that is sent with an empty
\* value reads as "".
Headers ==
    { [authorization |-> "k1",   xForwardedFor |-> "ip1", xRealIp |-> Absent],
      [authorization |-> Absent, xForwardedFor |-> "ip1", xRealIp |-> "ip2"],
      [authorization |-> "",     xForwardedFor |-> "ip1", xRealIp |-> Absent] }

NoHeaders == [authorization |-> Absent, xForwardedFor |-> Absent, xRealIp |-> Absent]

\* a || b of JavaScript on header values: undefined and "" are falsy.
Or(a, b) == IF a # Absent /\ a # "" THEN a ELSE b

\* Mutant of KeyOf: a header counts as soon as it is sent (a ?? b).
KeyOfPresent(h) ==
    LET ip == IF h.xForwardedFor # Absent THEN h.xForwardedFor
              ELSE IF h.xRealIp # Absent THEN h.xRealIp ELSE "unknown"
    IN  IF h.authorization # Absent THEN h.authorization ELSE ip

\* The identity key of a request.
KeyOf(h) ==
    LET authHeader == h.authorization
        ip == Or(h.xForwardedFor, Or(h.xRealIp, "unknown"))
    IN  Or(authHeader, ip)

windowMs == IF cfgWindow # 0 THEN cfgWindow ELSE EnvWindow
maxRequests == IF cfgMax # 0 THEN cfgMax ELSE EnvMax

\* The filter keeping a timestamp that is exactly one window old.
RECURSIVE FilterRecentInclusive(_, _, _)
FilterRecentInclusive(timestamps, t, w) ==
    IF Len(timestamps) = 0 THEN <<>>
    ELSE IF t - Head(timestamps) <= w
         THEN <<Head(timestamps)>> \o FilterRecentInclusive(Tail(timestamps), t, w)
         ELSE FilterRecentInclusive(Tail(timestamps), t, w)

\* timestamps.filter(t => now - t < w)
RECURSIVE FilterRecent(_, _, _)
FilterRecent(timestamps, t, w) ==
    IF Len(timestamps) = 0 THEN <<>>
    ELSE IF t - Head(timestamps) < w
         THEN <<Head(timestamps)>> \o FilterRecent(Tail(timestamps), t, w)
         ELSE FilterRecent(Tail(timestamps), t, w)

\* Mutant of Get: one window shared by every key.
GetShared(key) ==
    IF DOMAIN requests = {} THEN <<>>
    ELSE requests[CHOOSE k \in DOMAIN requests : TRUE]

\* requests.get(key) || []
Get(key) == IF key \in DOMAIN requests THEN requests[key] ELSE <<>>

\* The Map after set(key, value)
MapSet(m, key, value) ==
    [k \in DOMAIN m \cup {key} |-> IF k = key THEN value ELSE m[k]]

\* The handler's local `recent` for a request of `key` arriving now.
Recent(key) == FilterRecent(Get(key), now, windowMs)

\* recent.length >= maxRequests
Limited(recent) == Len(recent) >= maxRequests

\* Milliseconds in one time unit.
UnitMs == 60000

\* Math.ceil(a / b), b positive.
CeilDiv(a, b) == -((-a) \div b)

\* Mutant of resetTime: Math.floor in place of Math.ceil.
resetTimeFloor(oldest, w, t) == (oldest + w - t) \div 1000

\* Math.ceil((recent[0] + windowMs - now) / 1000), the arguments in ms.
resetTime(oldest, w, t) == CeilDiv(oldest + w - t, 1000)

\* Math.ceil(windowMs / 1000), the argument in ms.
windowSeconds(w) == CeilDiv(w, 1000)

\* A response header that was not set.
NotSet == -1

\* Math.ceil of undefined + windowMs - now.
NaN == -2

\* A request slot not in use. A rejected request keeps the time at which it
\* was rejected and the window it saw (the handler's `now` and `recent`).
FreeSlot ==
    [pc |-> "free", hdr |-> NoHeaders, key |-> "", at |-> NotSet, recent |-> <<>>,
     status |-> 0, nextCalls |-> 0, ran |-> FALSE,
     xLimit |-> NotSet, xRemaining |-> NotSet, xReset |-> NotSet,
     retryAfter |-> NotSet]

\* The state of the limiter's module right after it is loaded.
LimitIdle ==
    /\ cfgWindow = 0
    /\ cfgMax = 0
    /\ now = 0
    /\ nextSweep = SweepEvery
    /\ requests = << >>
    /\ req = [r \in Reqs |-> FreeSlot]
    /\ admitted = [k \in {KeyOf(h) : h \in Headers} |-> <<>>]

\* The slots of the file requests in flight together.
FReqs == {1, 2}

NoSite ==
    [name |-> <<>>, path |-> <<>>, auth_user |-> "", auth_hash |-> "",
     quota_bytes |-> 0, used_bytes |-> 0]

FreeFileSlot ==
    [pc |-> "free", op |-> "", site |-> NoSite, rel |-> <<>>, target |-> Unset,
     overwrite |-> FALSE, size |-> 0, status |-> 0, error |-> "", fsOps |-> 0]

\* No file request, no site, an empty disk: the file handlers at rest.
FilesIdle ==
    /\ sites = << >>
    /\ files = << >>
    /\ dirs = {}
    /\ freq = [r \in FReqs |-> FreeFileSlot]

PathIdle ==
    /\ spBase = <<>>
    /\ spUser = <<>>
    /\ spResult = Unset

\* No quota query has been run.
NoLedger ==
    [op |-> "", name |-> <<>>, amount |-> 0, before |-> 0,
     requested |-> << >>, clamped |-> << >>]

LedgerIdle == ledger = NoLedger

\* The slots of the site requests in flight together.
SReqs == {1, 2}

\* null of JavaScript and NULL of SQL.
JsNull == "<null>"

FreeSiteSlot ==
    [pc |-> "free", op |-> "", name |-> <<>>, sitePath |-> <<>>,
     authUser |-> JsNull, authHash |-> JsNull, call |-> "", status |-> 0]

\* No site request, no route.
SitesIdle ==
    /\ useSyncScript = FALSE
    /\ routes = <<>>
    /\ sreq = [r \in SReqs |-> FreeSiteSlot]

InitLimit ==
    /\ SitesIdle
    /\ LedgerIdle
    /\ PathIdle
    /\ FilesIdle
    /\ \E config \in Configs :
          /\ cfgWindow = config.windowMs
          /\ cfgMax = config.maxRequests
    /\ now = 0
    /\ nextSweep = SweepEvery
    /\ requests = << >>
    /\ req = [r \in Reqs |-> FreeSlot]
    /\ admitted = [k \in {KeyOf(h) : h \in Headers} |-> <<>>]

\* The record of a request that got the 429 response.
Rejected(h) ==
    LET recent == Recent(KeyOf(h))
        reset == IF Len(recent) = 0 THEN NaN
                 ELSE resetTime(recent[1] * UnitMs, windowMs * UnitMs, now * UnitMs)
    IN  [pc |-> "rejected", hdr |-> h, key |-> KeyOf(h), at |-> now,
         recent |-> recent,
         status |-> 429, nextCalls |-> 0, ran |-> FALSE,
         xLimit |-> maxRequests, xRemaining |-> 0, xReset |-> reset,
         retryAfter |-> reset]

\* The record of a request whose middleware awaits next().
InNext(h) ==
    LET recent == Append(Recent(KeyOf(h)), now)
    IN  [pc |-> "next", hdr |-> h, key |-> KeyOf(h), at |-> NotSet,
         recent |-> <<>>,
         status |-> 0, nextCalls |-> 1, ran |-> FALSE,
         xLimit |-> maxRequests, xRemaining |-> maxRequests - Len(recent),
         xReset |-> windowSeconds(windowMs * UnitMs), retryAfter |-> NotSet]

\* Mutant of RateLimit: the rejected attempt is pushed and stored too.
RateLimitRecordsRejected(r, h) ==
    /\ req[r].pc = "free"
    /\ LET key == KeyOf(h)
           recent == Recent(key)
       IN  /\ requests' = MapSet(requests, key, Append(recent, now))
           /\ IF Limited(recent)
              THEN /\ req' = [req EXCEPT ![r] = Rejected(h)]
                   /\ UNCHANGED admitted
              ELSE /\ admitted' = [admitted EXCEPT ![key] = Append(@, now)]
                   /\ req' = [req EXCEPT ![r] = InNext(h)]
    /\ UNCHANGED <<cfgWindow, cfgMax, now, nextSweep, notLimitVars>>

\* Mutant of RateLimit: the 429 branch does not return, so the handler goes
\* on to push, set and next().
RateLimitFallsThrough(r, h) ==
    /\ req[r].pc = "free"
    /\ LET key == KeyOf(h)
           recent == Recent(key)
       IN  /\ requests' = MapSet(requests, key, Append(recent, now))
           /\ admitted' = [admitted EXCEPT ![key] = Append(@, now)]
           /\ req' = [req EXCEPT ![r] =
                 [InNext(h) EXCEPT !.status = IF Limited(recent) THEN 429 ELSE 0]]
    /\ UNCHANGED <<cfgWindow, cfgMax, now, nextSweep, notLimitVars>>

\* Mutant of RateLimit: an await between reading the window and writing it
\* back, so the write uses the window as it was read.
RateLimitAwaitInside(r, h) ==
    /\ \/ /\ req[r].pc = "free"
          /\ req' = [req EXCEPT ![r] =
                [FreeSlot EXCEPT !.pc = "read", !.hdr = h, !.key = KeyOf(h),
                                 !.recent = Recent(KeyOf(h))]]
          /\ UNCHANGED <<requests, admitted>>
       \/ /\ req[r].pc = "read"
          /\ req[r].hdr = h
          /\ LET key == KeyOf(h)
                 recent == req[r].recent
                   IN  IF Limited(recent)
                 THEN /\ req' = [req EXCEPT ![r] = Rejected(h)]
                      /\ UNCHANGED <<requests, admitted>>
                 ELSE /\ requests' = MapSet(requests, key, Append(recent, now))
                      /\ admitted' = [admitted EXCEPT ![key] = Append(@, now)]
                      /\ req' = [req EXCEPT ![r] = InNext(h)]
    /\ UNCHANGED <<cfgWindow, cfgMax, now, nextSweep, notLimitVars>>

\* A request arrives in slot r with headers h and runs the middleware up to
\* its first await: key, prune, compare, then either the 429 response or
\* push, set, headers and the call of next().
RateLimit(r, h) ==
    /\ req[r].pc = "free"
    /\ LET key == KeyOf(h)
           recent == Recent(key)
       IN  IF Limited(recent)
           THEN /\ req' = [req EXCEPT ![r] = Rejected(h)]
                /\ UNCHANGED <<requests, admitted>>
           ELSE /\ requests' = MapSet(requests, key, Append(recent, now))
                /\ admitted' = [admitted EXCEPT ![key] = Append(@, now)]
                /\ req' = [req EXCEPT ![r] = InNext(h)]
    /\ UNCHANGED <<cfgWindow, cfgMax, now, nextSweep, notLimitVars>>

\* The downstream handlers awaited by `await next()` finish, and with them the
\* middleware.
NextReturns(r) ==
    /\ req[r].pc = "next"
    /\ req' = [req EXCEPT ![r].pc = "done", ![r].ran = TRUE, ![r].status = 200]
    /\ UNCHANGED <<cfgWindow, cfgMax, now, nextSweep, requests, admitted, notLimitVars>>

\* The response is sent; the slot is free for the next request.
Respond(r) ==
    /\ req[r].pc \in {"done", "rejected"}
    /\ req' = [req EXCEPT ![r] = FreeSlot]
    /\ UNCHANGED <<cfgWindow, cfgMax, now, nextSweep, requests, admitted, notLimitVars>>

\* The setInterval callback without its delete: a key with nothing left is
\* set to the empty array.
SweepKeepsEmpty ==
    /\ now >= nextSweep
    /\ requests' = [k \in DOMAIN requests |-> FilterRecent(requests[k], now, EnvWindow)]
    /\ nextSweep' = nextSweep + SweepEvery
    /\ UNCHANGED <<cfgWindow, cfgMax, now, req, admitted, notLimitVars>>

\* The setInterval callback: every key keeps the timestamps younger than the
\* environment's window, and is deleted when none is left.
Sweep ==
    /\ now >= nextSweep
    /\ LET kept == {k \in DOMAIN requests :
                      Len(FilterRecent(requests[k], now, EnvWindow)) # 0}
       IN  requests' = [k \in kept |-> FilterRecent(requests[k], now, EnvWindow)]
    /\ nextSweep' = nextSweep + SweepEvery
    /\ UNCHANGED <<cfgWindow, cfgMax, now, req, admitted, notLimitVars>>

\* The clock advances by one unit (not past a sweep that is due).
Tick ==
    /\ now < MaxTime
    /\ now < nextSweep
    /\ now' = now + 1
    /\ admitted' = [k \in DOMAIN admitted |->
                      FilterRecent(admitted[k], now + 1, windowMs)]
    /\ UNCHANGED <<cfgWindow, cfgMax, nextSweep, requests, req, notLimitVars>>

NextLimit ==
    \/ \E r \in Reqs, h \in Headers : RateLimit(r, h)
    \/ \E r \in Reqs : NextReturns(r)
    \/ \E r \in Reqs : Respond(r)
    \/ Sweep
    \/ Tick

SpecLimit == InitLimit /\ [][NextLimit]_vars

\* The total of the lengths of the arrays stored under a set of keys.
RECURSIVE SumOfLengths(_, _)
SumOfLengths(m, keys) ==
    IF keys = {} THEN 0
    ELSE LET k == CHOOSE j \in keys : TRUE
         IN  Len(m[k]) + SumOfLengths(m, keys \ {k})

\* getRateLimitStats with requests.size for both counts.
getRateLimitStatsSizeOnly ==
    [keys |-> Cardinality(DOMAIN requests),
     totalRequests |-> Cardinality(DOMAIN requests)]

\* getRateLimitStats(): the size of the Map and the sum of the lengths of its
\* values.
getRateLimitStats ==
    [keys |-> Cardinality(DOMAIN requests),
     totalRequests |-> SumOfLengths(requests, DOMAIN requests)]

\* clearRateLimits(): requests.clear(). The record of the admitted requests
\* starts again with the store.
ClearRateLimits ==
    /\ requests' = << >>
    /\ admitted' = [k \in DOMAIN admitted |-> <<>>]
    /\ UNCHANGED <<cfgWindow, cfgMax, now, nextSweep, req, notLimitVars>>

NextStats ==
    \/ NextLimit
    \/ ClearRateLimits

\* The limiter with its two exported helpers in use.
SpecStats == InitLimit /\ [][NextStats]_vars

\* Time passes and the interval timer fires.
SpecLimitFair ==
    /\ InitLimit
    /\ [][NextLimit]_vars
    /\ WF_vars(Tick)
    /\ WF_vars(Sweep)



\* ------------------------------------------------- file handlers (index.ts)
\* SF_SITES_ROOT as the file handlers see it: the default, a relative directory.
SITES_ROOT == <<".", "/", "s">>

\* One size unit is 25 MB.
\* MAX_FILE_SIZE, in size units: SF_MAX_FILE_MB at its default of 50.
MAX_FILE_SIZE == 2

\* The default of the column quota_bytes, in size units: 100 MB.
DEFAULT_QUOTA == 4

\* The site names a request may address: a site that exists, one that does not.
ReqSiteNames == {<<"a">>, <<"b">>}

\* The query of an upload: ?path= and ?overwrite=true.
UploadQueries ==
    {[path |-> q, overwrite |-> o] : q \in {<<>>, <<"a">>, <<".", ".">>}, o \in BOOLEAN}

\* formData.get("file") when the form has none.
NoFile == [name |-> <<>>, size |-> -1]

\* The files a form may carry: two within the size limit, one above it.
UploadFiles ==
    { [name |-> <<"a">>, size |-> 1],
      [name |-> <<"a", "a">>, size |-> 2],
      [name |-> <<"a">>, size |-> 3] }

\* The {path} parameter of a file delete.
DeletePaths ==
    { <<"a">>, <<"a", "/", "a">>, <<".", ".", "/", "a", "a", "/", "a">>, <<".">> }

\* A row of the sites table as insertSite creates it.
SiteRow(name) ==
    [name |-> name, path |-> getSitePath(SITES_ROOT, name),
     auth_user |-> "<null>", auth_hash |-> "<null>",
     quota_bytes |-> DEFAULT_QUOTA, used_bytes |-> 0]

\* The quotas a site may have: the default, or one the administrator has set.
Quotas == {DEFAULT_QUOTA, 1}

\* Mutant of decrementUsedBytes: the subtraction without its floor.
decrementNoFloor(table, n, name) ==
    [k \in DOMAIN table |->
        IF k = name THEN [table[k] EXCEPT !.used_bytes = @ - n] ELSE table[k]]

\* UPDATE sites SET used_bytes = used_bytes + ? WHERE name = ?
incrementUsedBytes(table, n, name) ==
    [k \in DOMAIN table |->
        IF k = name THEN [table[k] EXCEPT !.used_bytes = @ + n] ELSE table[k]]

\* UPDATE sites SET used_bytes = MAX(0, used_bytes - ?) WHERE name = ?
decrementUsedBytes(table, n, name) ==
    [k \in DOMAIN table |->
        IF k = name
        THEN [table[k] EXCEPT !.used_bytes = IF 0 > @ - n THEN 0 ELSE @ - n]
        ELSE table[k]]

\* The names of an absolute, normalized path, from the filesystem root.
Names(p) == NormSegs(Split(p), <<>>, FALSE)

\* path.dirname of an absolute, normalized path.
dirname(p) ==
    IF Len(Names(p)) = 0 THEN sep
    ELSE AbsPath(SubSeq(Names(p), 1, Len(Names(p)) - 1))

\* A directory with every directory above it.
WithAncestors(dir) == {AbsPath(SubSeq(Names(dir), 1, i)) : i \in 0..Len(Names(dir))}

\* existsSync
existsSync(p) == p \in DOMAIN files \/ p \in dirs

\* mkdirSync(dir, {recursive: true}) throws when a file stands where a
\* directory is needed.
MkdirThrows(dir) == \E d \in WithAncestors(dir) : d \in DOMAIN files

\* The directories after mkdirSync(dir, {recursive: true}).
MkdirP(dir) == dirs \cup WithAncestors(dir)

\* The slot of a request that has responded.
Responded(slot, status, error) ==
    [slot EXCEPT !.pc = "done", !.status = status, !.error = error]

\* Two sites exist, the name of one a prefix of the other's, with their
\* directories, their quota and no file yet.
InitFiles ==
    /\ SitesIdle
    /\ LedgerIdle
    /\ PathIdle
    /\ LimitIdle
    /\ \E q \in Quotas :
          sites = [n \in SiteNames |-> [SiteRow(n) EXCEPT !.quota_bytes = q]]
    /\ files = << >>
    /\ dirs = UNION {WithAncestors(resolve(<<getSitePath(SITES_ROOT, n)>>)) : n \in SiteNames}
    /\ freq = [r \in FReqs |-> FreeFileSlot]

\* POST /sites/{name}/files, up to `await c.req.formData()`.
UploadStart(r, name) ==
    /\ freq[r].pc = "free"
    /\ IF name \notin DOMAIN sites
       THEN freq' = [freq EXCEPT ![r] =
                Responded([FreeFileSlot EXCEPT !.op = "upload"], 404, "Site not found")]
       ELSE freq' = [freq EXCEPT ![r] =
                [FreeFileSlot EXCEPT !.pc = "form", !.op = "upload", !.site = sites[name]]]
    /\ UNCHANGED <<sites, files, dirs, notFileVars>>

\* The existence test that does not look at the overwrite parameter.
alreadyExistsWhateverTheFlag(targetPath, overwrite) == existsSync(targetPath)

\* existsSync(targetPath) && query.overwrite !== "true"
alreadyExists(targetPath, overwrite) == existsSync(targetPath) /\ ~overwrite

\* Mutant of UploadForm: the directory is made from the joined path before
\* the path is validated.
UploadFormMkdirFirst(r, query, file) ==
    /\ freq[r].pc = "form"
    /\ LET slot == [freq[r] EXCEPT !.overwrite = query.overwrite]
           relativePath == join(query.path, file.name)
           targetPath == safePath(slot.site.path, relativePath)
           joined == resolve(<<slot.site.path, relativePath>>)
       IN  IF file = NoFile \/ file.size > MAX_FILE_SIZE \/ MkdirThrows(dirname(joined))
           THEN /\ freq' = [freq EXCEPT ![r] = Responded(slot, 500, "")]
                /\ UNCHANGED dirs
           ELSE /\ dirs' = MkdirP(dirname(joined))
                /\ IF targetPath = Null
                   THEN freq' = [freq EXCEPT ![r] =
                            Responded([slot EXCEPT !.rel = relativePath,
                                                   !.target = targetPath,
                                                   !.fsOps = @ + 1],
                                      400, "Invalid path")]
                   ELSE freq' = [freq EXCEPT ![r] =
                            [slot EXCEPT !.pc = "write", !.rel = relativePath,
                                         !.target = targetPath, !.size = file.size,
                                         !.fsOps = @ + 1]]
    /\ UNCHANGED <<sites, files, notFileVars>>

\* The upload handler from the form's arrival to `await file.arrayBuffer()` and
\* `await Bun.write(...)`: the checks, safePath, the existence test, mkdirSync.
UploadForm(r, query, file) ==
    /\ freq[r].pc = "form"
    /\ LET slot == [freq[r] EXCEPT !.overwrite = query.overwrite]
           relativePath == join(query.path, file.name)
           targetPath == safePath(slot.site.path, relativePath)
       IN  IF file = NoFile
           THEN /\ freq' = [freq EXCEPT ![r] = Responded(slot, 400, "No file provided")]
                /\ UNCHANGED dirs
           ELSE IF file.size > MAX_FILE_SIZE
           THEN /\ freq' = [freq EXCEPT ![r] = Responded(slot, 413, "File too large")]
                /\ UNCHANGED dirs
           ELSE IF targetPath = Null
           THEN /\ freq' = [freq EXCEPT ![r] =
                     Responded([slot EXCEPT !.rel = relativePath, !.target = targetPath],
                               400, "Invalid path")]
                /\ UNCHANGED dirs
           ELSE IF alreadyExists(targetPath, query.overwrite)
           THEN /\ freq' = [freq EXCEPT ![r] =
                     Responded([slot EXCEPT !.rel = relativePath, !.target = targetPath],
                               409, "File already exists")]
                /\ UNCHANGED dirs
           ELSE IF MkdirThrows(dirname(targetPath))
           THEN /\ freq' = [freq EXCEPT ![r] =
                     Responded([slot EXCEPT !.rel = relativePath, !.target = targetPath],
                               500, "")]
                /\ UNCHANGED dirs
           ELSE /\ dirs' = MkdirP(dirname(targetPath))
                /\ freq' = [freq EXCEPT ![r] =
                     [slot EXCEPT !.pc = "write", !.rel = relativePath,
                                  !.target = targetPath, !.size = file.size,
                                  !.fsOps = @ + 1]]
    /\ UNCHANGED <<sites, files, notFileVars>>

\* Bun.write(targetPath, buffer) completes (it throws on a directory, and when
\* the disk refuses the write: ioOk is FALSE) and the handler answers.
UploadWrite(r, ioOk) ==
    /\ freq[r].pc = "write"
    /\ LET slot == freq[r]
       IN  IF slot.target \in dirs \/ ~ioOk
           THEN /\ freq' = [freq EXCEPT ![r] = Responded(slot, 500, "")]
                /\ UNCHANGED files
           ELSE /\ files' = MapSet(files, slot.target, slot.size)
                /\ freq' = [freq EXCEPT ![r] =
                     Responded([slot EXCEPT !.fsOps = @ + 1], 201, "")]
    /\ UNCHANGED <<sites, dirs, notFileVars>>

\* DELETE /sites/{name}/files/{path}: the whole handler, which never awaits.
DeleteFile(r, name, filePath) ==
    /\ freq[r].pc = "free"
    /\ LET slot == [FreeFileSlot EXCEPT !.op = "delete"]
       IN  IF name \notin DOMAIN sites
           THEN /\ freq' = [freq EXCEPT ![r] = Responded(slot, 404, "Site not found")]
                /\ UNCHANGED files
           ELSE LET site == sites[name]
                    fullPath == safePath(site.path, filePath)
                    seen == [slot EXCEPT !.site = site, !.rel = filePath,
                                         !.target = fullPath]
                IN  IF fullPath = Null
                    THEN /\ freq' = [freq EXCEPT ![r] =
                              Responded(seen, 400, "Invalid path")]
                         /\ UNCHANGED files
                    ELSE IF ~existsSync(fullPath)
                    THEN /\ freq' = [freq EXCEPT ![r] =
                              Responded(seen, 404, "File not found")]
                         /\ UNCHANGED files
                    ELSE IF fullPath \in dirs
                    THEN /\ freq' = [freq EXCEPT ![r] = Responded(seen, 500, "")]
                         /\ UNCHANGED files
                    ELSE /\ files' = [f \in DOMAIN files \ {fullPath} |-> files[f]]
                         /\ freq' = [freq EXCEPT ![r] =
                              Responded([seen EXCEPT !.fsOps = @ + 1], 200, "")]
    /\ UNCHANGED <<sites, dirs, notFileVars>>

\* The response of a file request is sent; its slot is free again.
FileRespond(r) ==
    /\ freq[r].pc = "done"
    /\ freq' = [freq EXCEPT ![r] = FreeFileSlot]
    /\ UNCHANGED <<sites, files, dirs, notFileVars>>

NextFiles ==
    \/ \E r \in FReqs, name \in ReqSiteNames : UploadStart(r, name)
    \/ \E r \in FReqs, query \in UploadQueries, file \in UploadFiles \cup {NoFile} :
          UploadForm(r, query, file)
    \/ \E r \in FReqs, ioOk \in BOOLEAN : UploadWrite(r, ioOk)
    \/ \E r \in FReqs, name \in ReqSiteNames, filePath \in DeletePaths :
          DeleteFile(r, name, filePath)
    \/ \E r \in FReqs : FileRespond(r)

SpecFiles == InitFiles /\ [][NextFiles]_vars

\* File requests addressed to both sites, a and aa, with sub-paths and delete
\* paths that lead from one site into the other.
TenantQueries ==
    {[path |-> q, overwrite |-> TRUE] :
        q \in {<<>>, <<".", ".">>, <<".", ".", "/", "a", "a">>}}

TenantFiles == {[name |-> <<"a">>, size |-> 1], [name |-> <<"a">>, size |-> 2]}

TenantDeletePaths ==
    { <<"a">>, <<".", ".", "/", "a", "a", "/", "a">>, <<".", ".", "/", "a", "/", "a">> }

NextTenants ==
    \/ \E r \in FReqs, name \in SiteNames : UploadStart(r, name)
    \/ \E r \in FReqs, query \in TenantQueries, file \in TenantFiles :
          UploadForm(r, query, file)
    \/ \E r \in FReqs, ioOk \in BOOLEAN : UploadWrite(r, ioOk)
    \/ \E r \in FReqs, name \in SiteNames, filePath \in TenantDeletePaths :
          DeleteFile(r, name, filePath)
    \/ \E r \in FReqs : FileRespond(r)

SpecTenants == InitFiles /\ [][NextTenants]_vars


\* ------------------------------------------------- the quota queries (db.ts)
\* used_bytes is not raised above this, and the amounts asked for in all do
\* not fall below its negative.
MaxUsed == 3

\* The byte counts the quota queries are run with.
Amounts == {1, 2}

\* The names the quota queries are run with: two sites and a name without a row.
LedgerNames == SiteNames \cup {<<"b">>}

\* used_bytes of a site; 0 for a name without a row.
UsedBytes(table, name) == IF name \in DOMAIN table THEN table[name].used_bytes ELSE 0

\* The history after a query asking for `delta` on `name`.
Logged(op, n, name, delta) ==
    [op |-> op, name |-> name, amount |-> n, before |-> UsedBytes(sites, name),
     requested |-> IF name \in DOMAIN sites
                   THEN [ledger.requested EXCEPT ![name] = @ + delta]
                   ELSE ledger.requested,
     clamped |-> IF name \in DOMAIN sites
                 THEN [ledger.clamped EXCEPT
                          ![name] = @ \/ UsedBytes(sites, name) + delta < 0]
                 ELSE ledger.clamped]

\* Two fresh rows, as insertSite leaves them.
InitLedger ==
    /\ SitesIdle
    /\ PathIdle
    /\ LimitIdle
    /\ sites = [n \in SiteNames |-> SiteRow(n)]
    /\ files = << >>
    /\ dirs = {}
    /\ freq = [r \in FReqs |-> FreeFileSlot]
    /\ ledger = [NoLedger EXCEPT !.requested = [n \in SiteNames |-> 0],
                                 !.clamped = [n \in SiteNames |-> FALSE]]

\* incrementUsedBytes.run(n, name)
IncrementUsedBytes(n, name) ==
    /\ UsedBytes(sites, name) + n <= MaxUsed
    /\ sites' = incrementUsedBytes(sites, n, name)
    /\ ledger' = Logged("increment", n, name, n)
    /\ UNCHANGED notLedgerVars

\* decrementUsedBytes.run(n, name)
DecrementUsedBytes(n, name) ==
    /\ name \in DOMAIN sites => ledger.requested[name] - n >= -MaxUsed
    /\ sites' = decrementUsedBytes(sites, n, name)
    /\ ledger' = Logged("decrement", n, name, -n)
    /\ UNCHANGED notLedgerVars

NextLedger ==
    \/ \E n \in Amounts, name \in LedgerNames : IncrementUsedBytes(n, name)
    \/ \E n \in Amounts, name \in LedgerNames : DecrementUsedBytes(n, name)

SpecLedger == InitLedger /\ [][NextLedger]_vars


\* ------------------------------------- site handlers (index.ts) and caddy.ts
\* SF_DOMAIN
DOMAIN_NAME == <<"d">>

\* body.auth of a create request: none, or a user and a password.
NoAuth == [user |-> JsNull, pass |-> JsNull]

CreateBodies ==
    {[name |-> n, auth |-> a] :
        n \in SiteNames, a \in {NoAuth, [user |-> "u", pass |-> "p"]}}

\* hashPassword: the bcrypt hash of a password.
hashPassword(pass) == "bcrypt:" \o pass

\* The route with the file server pushed before the authentication.
RouteAuthLast(name, fsPath, authUser, authHash) ==
    [id |-> <<"s", "f", "-">> \o name,
     host |-> name \o <<".">> \o DOMAIN_NAME,
     handle |->
        <<[handler |-> "file_server", root |-> fsPath]>>
        \o (IF authHash # JsNull
            THEN <<[handler |-> "authentication", username |-> authUser,
                    password |-> authHash]>>
            ELSE <<>>)]

\* The route addSiteViaApi builds: basic auth first when there is a
\* credential, the file server last.
Route(name, fsPath, authUser, authHash) ==
    [id |-> <<"s", "f", "-">> \o name,
     host |-> name \o <<".">> \o DOMAIN_NAME,
     handle |->
        (IF authHash # JsNull
         THEN <<[handler |-> "authentication", username |-> authUser,
                 password |-> authHash]>>
         ELSE <<>>)
        \o <<[handler |-> "file_server", root |-> fsPath]>>]

\* The proxy is not given more routes than this.
MaxRoutes == 2

\* PATCH /sites/{name}: the names addressed and the bodies sent.
UpdateBodies == {[auth |-> a] : a \in {NoAuth, [user |-> "u", pass |-> "p"]}}

\* A sequence without its i-th element.
RemoveAt(seq, i) == SubSeq(seq, 1, i - 1) \o SubSeq(seq, i + 1, Len(seq))

\* removeSiteViaApi with every failure status raising, 404 included.
removeThrowsOn404(answer) == answer \in {"error", "notfound"}

\* removeSiteViaApi raises when `!res.ok && res.status !== 404`: an answer of
\* 404 (no such route) is not an error.
removeThrows(answer) == answer = "error"

\* The routes of a site in the proxy.
RoutesOf(name) ==
    {i \in 1..Len(routes) : routes[i].id = <<"s", "f", "-">> \o name}

\* What rmSync(path, {recursive: true, force: true}) leaves of a set of paths.
RmTree(paths, path) ==
    {q \in paths : q # resolve(<<path>>) /\ ~UnderBase(q, resolve(<<path>>))}

\* The server has started: the sites directory exists, the registry and the
\* proxy are empty; the sync script is there or not.
InitSites ==
    /\ PathIdle
    /\ LimitIdle
    /\ LedgerIdle
    /\ useSyncScript \in BOOLEAN
    /\ routes = <<>>
    /\ sreq = [r \in SReqs |-> FreeSiteSlot]
    /\ sites = << >>
    /\ files = << >>
    /\ dirs = WithAncestors(resolve(<<SITES_ROOT>>))
    /\ freq = [r \in FReqs |-> FreeFileSlot]

\* The answer of a site request.
Answered(slot, status) == [slot EXCEPT !.pc = "done", !.status = status]

\* POST /sites without the lookup of the name.
CreateSiteNoLookup(r, body) ==
    /\ sreq[r].pc = "free"
    /\ LET sitePath == getSitePath(SITES_ROOT, body.name)
           slot == [FreeSiteSlot EXCEPT
                       !.op = "create", !.name = body.name, !.sitePath = sitePath,
                       !.authUser = body.auth.user,
                       !.authHash = IF body.auth = NoAuth THEN JsNull
                                    ELSE hashPassword(body.auth.pass)]
       IN  IF MkdirThrows(resolve(<<sitePath>>))
           THEN /\ sreq' = [sreq EXCEPT ![r] = Answered(slot, 500)]
                /\ UNCHANGED dirs
           ELSE /\ dirs' = MkdirP(resolve(<<sitePath>>))
                /\ sreq' = [sreq EXCEPT ![r] =
                      [slot EXCEPT !.pc = "addSite",
                                   !.call = IF useSyncScript THEN "none" ELSE "sent"]]
    /\ UNCHANGED <<sites, files, routes, useSyncScript, notSiteVars>>

\* POST /sites up to `await caddy.addSite(...)`: the lookup, mkdirSync, the
\* hash, and addSite, which sends the route to the Admin API only when there
\* is no sync script.
CreateSite(r, body) ==
    /\ sreq[r].pc = "free"
    /\ LET sitePath == getSitePath(SITES_ROOT, body.name)
           slot == [FreeSiteSlot EXCEPT
                       !.op = "create", !.name = body.name, !.sitePath = sitePath,
                       !.authUser = body.auth.user,
                       !.authHash = IF body.auth = NoAuth THEN JsNull
                                    ELSE hashPassword(body.auth.pass)]
       IN  IF body.name \in DOMAIN sites
           THEN /\ sreq' = [sreq EXCEPT ![r] = Answered(slot, 409)]
                /\ UNCHANGED dirs
           ELSE IF MkdirThrows(resolve(<<sitePath>>))
           THEN /\ sreq' = [sreq EXCEPT ![r] = Answered(slot, 500)]
                /\ UNCHANGED dirs
           ELSE /\ dirs' = MkdirP(resolve(<<sitePath>>))
                /\ sreq' = [sreq EXCEPT ![r] =
                      [slot EXCEPT !.pc = "addSite",
                                   !.call = IF useSyncScript THEN "none" ELSE "sent"]]
    /\ UNCHANGED <<sites, files, routes, useSyncScript, notSiteVars>>

\* The proxy answers the POST of a route: it has appended the route, or it
\* refuses with an error status.
ProxyAnswersAdd(r, ok) ==
    /\ sreq[r].pc \in {"addSite", "updateAdd"}
    /\ sreq[r].call = "sent"
    /\ ok => Len(routes) < MaxRoutes
    /\ IF ok
       THEN /\ routes' = Append(routes, Route(sreq[r].name, sreq[r].sitePath,
                                             sreq[r].authUser, sreq[r].authHash))
            /\ sreq' = [sreq EXCEPT ![r].call = "ok"]
       ELSE /\ sreq' = [sreq EXCEPT ![r].call = "error"]
            /\ UNCHANGED routes
    /\ UNCHANGED <<sites, files, dirs, useSyncScript, notSiteVars>>

\* POST /sites after `await caddy.addSite(...)`: on an error the directory is
\* removed and the answer is 500; otherwise the row is inserted (the insert
\* throws when the name is taken) and the answer is 201.
CreateResume(r) ==
    /\ sreq[r].pc = "addSite"
    /\ sreq[r].call \in {"none", "ok", "error"}
    /\ LET slot == sreq[r]
       IN  IF slot.call = "error"
           THEN /\ dirs' = RmTree(dirs, slot.sitePath)
                /\ files' = [f \in RmTree(DOMAIN files, slot.sitePath) |-> files[f]]
                /\ sreq' = [sreq EXCEPT ![r] = Answered(slot, 500)]
                /\ UNCHANGED sites
           ELSE IF slot.name \in DOMAIN sites
           THEN /\ sreq' = [sreq EXCEPT ![r] = Answered(slot, 500)]
                /\ UNCHANGED <<sites, files, dirs>>
           ELSE /\ sites' = MapSet(sites, slot.name,
                                [SiteRow(slot.name) EXCEPT
                                    !.path = slot.sitePath,
                                    !.auth_user = slot.authUser,
                                    !.auth_hash = slot.authHash])
                /\ sreq' = [sreq EXCEPT ![r] = Answered(slot, 201)]
                /\ UNCHANGED <<files, dirs>>
    /\ UNCHANGED <<routes, useSyncScript, notSiteVars>>

\* DELETE /sites/{name} up to `await caddy.removeSite(name)`: the lookup, and
\* removeSite, which sends the DELETE of the route to the Admin API only when
\* there is no sync script.
DeleteSite(r, name) ==
    /\ sreq[r].pc = "free"
    /\ LET slot == [FreeSiteSlot EXCEPT !.op = "delete", !.name = name]
       IN  IF name \notin DOMAIN sites
           THEN sreq' = [sreq EXCEPT ![r] = Answered(slot, 404)]
           ELSE sreq' = [sreq EXCEPT ![r] =
                   [slot EXCEPT !.pc = "removeSite", !.sitePath = sites[name].path,
                                !.call = IF useSyncScript THEN "none" ELSE "sent"]]
    /\ UNCHANGED <<sites, files, dirs, routes, useSyncScript, notSiteVars>>

\* The proxy answers the DELETE of /id/sf-{name}: it has removed a route of
\* that identifier, it answers 404 because it has none, or it fails with
\* another status.
ProxyAnswersRemove(r, ok) ==
    /\ sreq[r].pc \in {"removeSite", "updateRemove"}
    /\ sreq[r].call = "sent"
    /\ IF ~ok
       THEN /\ sreq' = [sreq EXCEPT ![r].call = "error"]
            /\ UNCHANGED routes
       ELSE IF RoutesOf(sreq[r].name) = {}
       THEN /\ sreq' = [sreq EXCEPT ![r].call = "notfound"]
            /\ UNCHANGED routes
       ELSE /\ \E i \in RoutesOf(sreq[r].name) : routes' = RemoveAt(routes, i)
            /\ sreq' = [sreq EXCEPT ![r].call = "ok"]
    /\ UNCHANGED <<sites, files, dirs, useSyncScript, notSiteVars>>

\* DELETE /sites/{name} after `await caddy.removeSite(name)`: removeSite has
\* thrown (the handler does not catch it), or the directory and the row are
\* removed and the answer is 200.
DeleteResume(r) ==
    /\ sreq[r].pc = "removeSite"
    /\ sreq[r].call \in {"none", "ok", "notfound", "error"}
    /\ LET slot == sreq[r]
       IN  IF removeThrows(slot.call)
           THEN /\ sreq' = [sreq EXCEPT ![r] = Answered(slot, 500)]
                /\ UNCHANGED <<sites, files, dirs>>
           ELSE /\ dirs' = RmTree(dirs, slot.sitePath)
                /\ files' = [f \in RmTree(DOMAIN files, slot.sitePath) |-> files[f]]
                /\ sites' = [n \in DOMAIN sites \ {slot.name} |-> sites[n]]
                /\ sreq' = [sreq EXCEPT ![r] = Answered(slot, 200)]
    /\ UNCHANGED <<routes, useSyncScript, notSiteVars>>

\* PATCH /sites/{name} up to `await caddy.updateSiteAuth(...)`: the lookup, the
\* hash, and updateSiteAuth, which without a sync script starts with the
\* DELETE of the route.
UpdateAuth(r, name, body) ==
    /\ sreq[r].pc = "free"
    /\ LET slot == [FreeSiteSlot EXCEPT
                       !.op = "update", !.name = name,
                       !.authUser = body.auth.user,
                       !.authHash = IF body.auth = NoAuth THEN JsNull
                                    ELSE hashPassword(body.auth.pass)]
       IN  IF name \notin DOMAIN sites
           THEN sreq' = [sreq EXCEPT ![r] = Answered(slot, 404)]
           ELSE sreq' = [sreq EXCEPT ![r] =
                   [slot EXCEPT !.pc = "updateRemove", !.sitePath = sites[name].path,
                                !.call = IF useSyncScript THEN "none" ELSE "sent"]]
    /\ UNCHANGED <<sites, files, dirs, routes, useSyncScript, notSiteVars>>

\* updateSiteAuth after `await removeSiteViaApi(name)`: it has thrown, or the
\* POST of the new route is sent.
UpdateAfterRemove(r) ==
    /\ sreq[r].pc = "updateRemove"
    /\ sreq[r].call \in {"ok", "notfound", "error"}
    /\ IF removeThrows(sreq[r].call)
       THEN sreq' = [sreq EXCEPT ![r] = Answered(sreq[r], 500)]
       ELSE sreq' = [sreq EXCEPT ![r].pc = "updateAdd", ![r].call = "sent"]
    /\ UNCHANGED <<sites, files, dirs, routes, useSyncScript, notSiteVars>>

\* PATCH /sites/{name} after `await caddy.updateSiteAuth(...)`: it has thrown,
\* or the row (if it is still there) gets the new credential and the answer
\* is 200.
UpdateResume(r) ==
    /\ \/ sreq[r].pc = "updateRemove" /\ sreq[r].call = "none"
       \/ sreq[r].pc = "updateAdd" /\ sreq[r].call \in {"ok", "error"}
    /\ LET slot == sreq[r]
       IN  IF slot.call = "error"
           THEN /\ sreq' = [sreq EXCEPT ![r] = Answered(slot, 500)]
                /\ UNCHANGED sites
           ELSE /\ sites' = [n \in DOMAIN sites |->
                                IF n = slot.name
                                THEN [sites[n] EXCEPT !.auth_user = slot.authUser,
                                                      !.auth_hash = slot.authHash]
                                ELSE sites[n]]
                /\ sreq' = [sreq EXCEPT ![r] = Answered(slot, 200)]
    /\ UNCHANGED <<files, dirs, routes, useSyncScript, notSiteVars>>

\* The response of a site request is sent; its slot is free again.
SiteRespond(r) ==
    /\ sreq[r].pc = "done"
    /\ sreq' = [sreq EXCEPT ![r] = FreeSiteSlot]
    /\ UNCHANGED <<sites, files, dirs, routes, useSyncScript, notSiteVars>>

NextSites ==
    \/ \E r \in SReqs, body \in CreateBodies : CreateSite(r, body)
    \/ \E r \in SReqs, ok \in BOOLEAN : ProxyAnswersAdd(r, ok)
    \/ \E r \in SReqs : CreateResume(r)
    \/ \E r \in SReqs, name \in ReqSiteNames : DeleteSite(r, name)
    \/ \E r \in SReqs, ok \in BOOLEAN : ProxyAnswersRemove(r, ok)
    \/ \E r \in SReqs : DeleteResume(r)
    \/ \E r \in SReqs, name \in ReqSiteNames, body \in UpdateBodies :
          UpdateAuth(r, name, body)
    \/ \E r \in SReqs : UpdateAfterRemove(r)
    \/ \E r \in SReqs : UpdateResume(r)
    \/ \E r \in SReqs : SiteRespond(r)

SpecSites == InitSites /\ [][NextSites]_vars

\* ----------------------------------------------------------- SpecPath
InitPath ==
    /\ SitesIdle
    /\ LedgerIdle
    /\ LimitIdle
    /\ FilesIdle
    /\ spBase \in {getSitePath(r, n) : r \in SitesRoots, n \in SiteNames}
    /\ spUser \in PathsUpTo(MaxPathLen) \cup NulPaths(NulPathLen)
    /\ spResult = Unset

SafePathCall ==
    /\ spResult = Unset
    /\ spResult' = safePath(spBase, spUser)
    /\ UNCHANGED <<spBase, spUser, notPathVars>>

NextPath == SafePathCall

SpecPath == InitPath /\ [][NextPath]_vars

\* ------------------------------------------------ claims about safePath
\* Where a path leads, read segment by segment from directory `from` (a
\* sequence of names, the filesystem root being <<>>): a name descends, ".."
\* goes to the parent (the root is its own parent), "" and "." stay.
RECURSIVE Walk(_, _)
Walk(from, segs) ==
    IF Len(segs) = 0 THEN from
    ELSE LET s == Head(segs)
         IN  IF s = <<>> \/ s = Dot THEN Walk(from, Tail(segs))
             ELSE IF s = DotDot
             THEN Walk(IF Len(from) = 0 THEN from ELSE SubSeq(from, 1, Len(from) - 1),
                       Tail(segs))
             ELSE Walk(Append(from, s), Tail(segs))

\* The directory names of the site root spBase, from the filesystem root.
RootDir == IF isAbsolute(spBase) THEN Walk(<<>>, Split(spBase))
           ELSE Walk(Walk(<<>>, Split(Cwd)), Split(spBase))

\* Where spUser leads, starting in the site root unless it is absolute.
Target == IF isAbsolute(spUser) THEN Walk(<<>>, Split(spUser))
          ELSE Walk(RootDir, Split(spUser))

IsSegPrefix(a, b) == Len(a) <= Len(b) /\ SubSeq(b, 1, Len(a)) = a

RECURSIVE ClimbsFrom(_, _)
\* Whether reading segs at `depth` names below the root goes above the root.
ClimbsFrom(segs, depth) ==
    IF Len(segs) = 0 THEN FALSE
    ELSE LET s == Head(segs)
         IN  IF s = <<>> \/ s = Dot THEN ClimbsFrom(Tail(segs), depth)
             ELSE IF s = DotDot
             THEN depth = 0 \/ ClimbsFrom(Tail(segs), depth - 1)
             ELSE ClimbsFrom(Tail(segs), depth + 1)

Climbs(p) == ClimbsFrom(Split(p), 0)

SafePathReturned == spResult # Unset

\* C1: whatever safePath returns is null or an absolute path that is the
\* resolved root itself or starts with the resolved root followed by one
\* separator, and it names a place in or under the root directory: never a
\* place outside it, such as a sibling whose name begins with the root's name.
C1_Contained ==
    (SafePathReturned /\ spResult # Null) =>
        /\ spResult = AbsPath(RootDir) \/ startsWith(spResult, AbsPath(RootDir) \o sep)
        /\ IsSegPrefix(RootDir, Walk(<<>>, Split(spResult)))
        /\ \A i \in 2..Len(Split(spResult)) :
              Split(spResult)[i] \notin {<<>>, Dot, DotDot}

\* C1 witness: "../aa" is asked of the root /a (the sibling /aa begins with
\* the root's name) and is rejected.
C1_Witness ==
    /\ spBase = <<"/", "a">>
    /\ spUser = <<".", ".", "/", "a", "a">>
    /\ spResult = Null

LeadingEscape(p) == startsWith(p, <<".", ".", "/">>) \/ isAbsolute(p)

\* C2 as stated: every userPath that begins with "../" or with a separator,
\* and every path that climbs above the root on its way, is rejected.
C2_Original ==
    (SafePathReturned /\ (LeadingEscape(spUser) \/ Climbs(spUser))) => spResult = Null

\* C2 as amended: a userPath that begins with "../" or with a separator, or
\* that climbs above the root on its way, is rejected exactly when the place
\* it leads to is neither the root nor under it; it is accepted when it leads
\* back into the root ("../<root's own name>/x", the root's own absolute path).
C2_RejectedUnlessBackInside ==
    (SafePathReturned /\ (LeadingEscape(spUser) \/ Climbs(spUser))) =>
        (spResult = Null <=> ~IsSegPrefix(RootDir, Target))

\* C2 witness: the nested escape "a/../.." has been rejected.
C2_Witness ==
    /\ spUser = <<"a", "/", ".", ".", "/", ".", ".">>
    /\ spResult = Null

\* C3: a relative userPath that never climbs above the root is accepted, and
\* the result is the resolved root followed by the names the path keeps once
\* ".", ".." and empty segments are worked out, one separator between them
\* (the root itself when no name is kept).
C3_RelativeAccepted ==
    (SafePathReturned /\ ~isAbsolute(spUser) /\ ~Climbs(spUser)) =>
        spResult = AbsPath(RootDir \o Walk(<<>>, Split(spUser)))

\* C3 witness: "a/../.a" (a parent step inside the root, then a dot-file) has
\* been accepted.
C3_Witness ==
    /\ spUser = <<"a", "/", ".", ".", "/", ".", "a">>
    /\ spResult # Unset
    /\ spResult # Null

\* -------------------------------------------- claims about the rate limiter
\* The stored window of key k, [] when the key is not in the Map.
StoredWindow(m, k) == IF k \in DOMAIN m THEN m[k] ELSE <<>>

\* C5 as stated: a request is admitted when fewer than maxRequests requests of
\* its key were admitted in the windowMs before it (the first N in a window,
\* and again once the window has passed the first of them), and rejected when
\* maxRequests were (the (N+1)-th in a window).
C5_AdmittedUpToMaxPerWindow ==
    [][\A r \in Reqs :
          (req[r].pc = "free" /\ req'[r].pc # "free") =>
              (req'[r].status = 429 <=>
                  Len(FilterRecent(admitted[req'[r].key], now, windowMs)) >= maxRequests)]_vars

\* C6 as stated: for every key, the admitted requests whose timestamps lie in
\* the half-open interval (now - windowMs, now] are at most maxRequests.
C6_AtMostMaxPerWindow ==
    \A k \in DOMAIN admitted : Len(admitted[k]) <= maxRequests

\* C7: the step in which a request is rejected leaves the whole store as it
\* was: the timestamps of its key, those of every other key, and the set of
\* keys present.
C7_RejectedNotRecorded ==
    [][\A r \in Reqs :
          (req[r].pc # "rejected" /\ req'[r].pc = "rejected") => requests' = requests]_vars

\* C7 witness: a request has been rejected while its key holds a full window.
C7_Witness ==
    \E r \in Reqs :
        /\ req[r].pc = "rejected"
        /\ Len(StoredWindow(requests, req[r].key)) = maxRequests

\* C8: a request answered 429 never has next() invoked and nothing downstream
\* runs for it; an admitted request has next() invoked exactly once, in the
\* step that has stored its timestamp as the last of its key's window.
C8_NextOnlyAfterAdmission ==
    [][\A r \in Reqs :
          /\ req'[r].status = 429 => (req'[r].nextCalls = 0 /\ ~req'[r].ran)
          /\ req'[r].ran => req'[r].nextCalls = 1
          /\ req'[r].pc \in {"next", "done"} => req'[r].nextCalls = 1
          /\ req'[r].nextCalls # req[r].nextCalls =>
                \/ req'[r].pc = "free"
                \/ /\ req[r].nextCalls = 0
                   /\ req'[r].nextCalls = 1
                   /\ req'[r].key \in DOMAIN requests'
                   /\ requests'[req'[r].key] # <<>>
                   /\ requests'[req'[r].key][Len(requests'[req'[r].key])] = now
                   /\ requests' # requests]_vars

\* C8 witness: one request is rejected, with no call of next, while another is
\* inside next().
C8_Witness ==
    \E r1, r2 \in Reqs :
        /\ req[r1].pc = "rejected" /\ req[r1].nextCalls = 0
        /\ req[r2].pc = "next" /\ req[r2].nextCalls = 1

\* How many admissions of key k carry the timestamp t.
AdmittedAt(k, t) == Cardinality({i \in 1..Len(admitted[k]) : admitted[k][i] = t})

C10_PerKeyWindows ==
    [][\A r \in Reqs :
          (req[r].pc = "free" /\ req'[r].pc # "free") =>
              LET k == req'[r].key
              IN  /\ \A k2 \in (DOMAIN requests \cup DOMAIN requests') \ {k} :
                        /\ k2 \in DOMAIN requests
                        /\ k2 \in DOMAIN requests'
                        /\ requests'[k2] = requests[k2]
                  /\ req'[r].status = 429 <=>
                        Len(FilterRecent(StoredWindow(requests, k), now, windowMs))
                            >= maxRequests]_vars

\* C10 witness: one key is limited while another key has just been admitted.
C10_Witness ==
    \E r1, r2 \in Reqs :
        /\ req[r1].pc = "rejected"
        /\ req[r2].pc = "next"
        /\ req[r1].key # req[r2].key

\* Every combination of the three headers: not sent, sent empty, sent with a value.
AllHeaders ==
    [authorization : {Absent, "", "k1"},
     xForwardedFor : {Absent, "", "ip1"},
     xRealIp : {Absent, "", "ip2"}]

\* The first of Authorization, x-forwarded-for, x-real-ip that is sent with a
\* value that is not empty; "unknown" when there is none.
FirstNonEmpty(h) ==
    CASE h.authorization \notin {Absent, ""} -> h.authorization
      [] h.xForwardedFor \notin {Absent, ""} -> h.xForwardedFor
      [] h.xRealIp \notin {Absent, ""} -> h.xRealIp
      [] OTHER -> "unknown"

\* C11 as stated: the key of a request is its Authorization value when the
\* header is present, else its x-forwarded-for value, else its x-real-ip
\* value, else "unknown".
C11_Original ==
    \A r \in Reqs : req[r].pc # "free" => req[r].key = KeyOfPresent(req[r].hdr)

\* C11, amended: the key of a request is the first of Authorization,
\* x-forwarded-for and x-real-ip that has a non-empty value, "unknown" when
\* none has; the request is judged on, and when admitted recorded in, the
\* window stored under that key and no other.
C11_KeyIsFirstNonEmpty ==
    [][/\ \A h \in AllHeaders : KeyOf(h) = FirstNonEmpty(h)
       /\ \A r \in Reqs :
            (req[r].pc = "free" /\ req'[r].pc # "free") =>
                LET k == FirstNonEmpty(req'[r].hdr)
                    window == FilterRecent(StoredWindow(requests, k), now, windowMs)
                IN  /\ req'[r].key = k
                    /\ req'[r].status = 429 <=> Len(window) >= maxRequests
                    /\ req'[r].status = 429 => requests' = requests
                    /\ req'[r].status # 429 =>
                          requests' = MapSet(requests, k, Append(window, now))]_vars

\* C11 witness: a request with an empty Authorization header and one without
\* the header, both from the same forwarded address, share one window.
C11_Witness ==
    \E r1, r2 \in Reqs :
        /\ req[r1].pc = "next" /\ req[r1].hdr.authorization = ""
        /\ req[r2].pc = "next" /\ req[r2].hdr.authorization = Absent
        /\ req[r1].key = req[r2].key
        /\ Len(StoredWindow(requests, req[r1].key)) = 2

\* Instants and window lengths in ms, on and around the second boundaries.
Millis == {0, 1, 999, 1000, 1001, 2500}

\* The seconds, rounded up, until a timestamp retained at time t (in units)
\* leaves the window.
SecondsToExit(timestamp, t) ==
    CHOOSE n \in 0..((windowMs * UnitMs) \div 1000 + 1) :
        /\ 1000 * n >= (timestamp + windowMs - t) * UnitMs
        /\ 1000 * (n - 1) < (timestamp + windowMs - t) * UnitMs

\* Whatever the milliseconds of the oldest retained timestamp, of the clock and
\* of the window, resetTime is the seconds rounded up, at least 1 and at most
\* ceil(windowMs / 1000).
RoundsUpWithinWindow ==
    \A o \in Millis, t \in Millis, w \in Millis \ {0} :
        (o <= t /\ t - o < w) =>
            LET n == resetTime(o, w, t)
            IN  /\ 1000 * n >= o + w - t
                /\ 1000 * (n - 1) < o + w - t
                /\ n >= 1
                /\ n <= windowSeconds(w)

\* C12: the response of every request carries X-RateLimit-Limit =
\* maxRequests; an admitted one carries X-RateLimit-Remaining = maxRequests
\* minus the timestamps stored for its key, its own included, never negative;
\* a rejected one carries X-RateLimit-Remaining = 0 and Retry-After = the
\* seconds, rounded up, until the oldest retained timestamp leaves the
\* window, which is at least 1 and at most ceil(windowMs / 1000).
C12_HeadersMatchState ==
    [][\A r \in Reqs :
            (req[r].pc = "free" /\ req'[r].pc # "free") =>
                LET k == req'[r].key
                    retained == FilterRecent(StoredWindow(requests, k), now, windowMs)
                    stored == StoredWindow(requests', k)
                IN  /\ req'[r].xLimit = maxRequests
                    /\ req'[r].status # 429 =>
                          /\ stored = Append(retained, now)
                          /\ req'[r].xRemaining = maxRequests - Len(stored)
                          /\ req'[r].xRemaining >= 0
                          /\ req'[r].retryAfter = NotSet
                    /\ req'[r].status = 429 =>
                          /\ req'[r].xRemaining = 0
                          /\ req'[r].retryAfter = SecondsToExit(retained[1], now)
                          /\ req'[r].retryAfter >= 1
                          /\ 1000 * (req'[r].retryAfter - 1) < windowMs * UnitMs
                          /\ RoundsUpWithinWindow]_vars

\* C12 witness: a request is rejected with Retry-After below the whole window
\* while an admitted one of another key reports capacity left.
C12_Witness ==
    \E r1, r2 \in Reqs :
        /\ req[r1].pc = "rejected"
        /\ req[r1].retryAfter >= 1
        /\ 1000 * req[r1].retryAfter < windowMs * UnitMs
        /\ req[r2].pc = "next"
        /\ req[r2].xRemaining > 0

\* C13 as stated: on every response, admitted or rejected, X-RateLimit-Reset
\* is the seconds, rounded up, until the oldest timestamp retained for the
\* key leaves the window.
C13_ResetIsTimeToOldestExit ==
    [][\A r \in Reqs :
          (req[r].pc = "free" /\ req'[r].pc # "free") =>
              LET k == req'[r].key
                  retained == FilterRecent(StoredWindow(requests', k), now, windowMs)
              IN  req'[r].xReset = SecondsToExit(retained[1], now)]_vars

\* ------------------------------------------------ claims about the file handlers
\* C4: in the upload and delete-file handlers no filesystem mutation (mkdir,
\* write, unlink) happens before safePath has accepted the target path, and a
\* request whose path safePath rejects ends with 400 while the files, the
\* directories and the sites table with its quota counters stay as they were.
C4_SafePathBeforeMutation ==
    [][\A r \in FReqs :
          LET before == freq[r]
              after == freq'[r]
              decided == before.target = Unset /\ after.target # Unset
          IN  /\ after.fsOps > before.fsOps =>
                    /\ after.target = safePath(after.site.path, after.rel)
                    /\ after.target # Null
              /\ (decided /\ safePath(after.site.path, after.rel) = Null) =>
                    /\ after.pc = "done"
                    /\ after.status = 400
                    /\ after.fsOps = 0
                    /\ UNCHANGED <<files, dirs, sites>>
              /\ (files' # files \/ dirs' # dirs \/ sites' # sites) =>
                    \E q \in FReqs : freq'[q].fsOps > freq[q].fsOps]_vars

\* An upload and a file delete have both been refused for their paths while
\* another upload's file is on disk.
C4_Witness ==
    /\ DOMAIN files # {}
    /\ \E r \in FReqs : /\ freq[r].op = "upload"
                        /\ freq[r].target = Null
                        /\ freq[r].status = 400
    /\ \E r \in FReqs : /\ freq[r].op = "delete"
                        /\ freq[r].target = Null
                        /\ freq[r].status = 400

\* The sum of the sizes of a set of files.
RECURSIVE SumSizes(_)
SumSizes(paths) ==
    IF paths = {} THEN 0
    ELSE LET p == CHOOSE q \in paths : TRUE
         IN  files[p] + SumSizes(paths \ {p})

\* The bytes on disk under the root of a site.
DiskUsage(name) ==
    SumSizes({p \in DOMAIN files : UnderBase(p, resolve(<<sites[name].path>>))})

\* An upload that has passed every check of the handler: it is about to write,
\* or has written.
Granted(r, name) ==
    /\ freq[r].op = "upload"
    /\ freq[r].site.name = name
    /\ freq[r].pc = "write" \/ freq[r].status = 201

\* C14 as stated: an upload whose size would take used_bytes above
\* quota_bytes is answered 413 before anything is written: no upload goes on
\* to its write, and none writes, unless used_bytes + size <= quota_bytes;
\* used_bytes is left as it was.
C14_OverQuotaRejectedBeforeWrite ==
    [][\A r \in FReqs :
          (freq'[r].op = "upload" /\ freq'[r].fsOps > freq[r].fsOps) =>
              LET row == sites[freq'[r].site.name]
              IN  /\ row.used_bytes + freq'[r].size <= row.quota_bytes
                  /\ sites' = sites]_vars

\* C15 as stated: uploads to one site that are in flight together are never
\* granted jointly beyond quota_bytes; two of quota_bytes / 2 + 1 bytes each
\* to a site with used_bytes = 0 are never both granted.
C15_NeverJointlyOverQuota ==
    \A name \in DOMAIN sites : \A r1, r2 \in FReqs :
        (r1 # r2 /\ Granted(r1, name) /\ Granted(r2, name)) =>
            sites[name].used_bytes + freq[r1].size + freq[r2].size
                <= sites[name].quota_bytes

\* C17 as stated: whenever no upload or file delete of a site is in flight,
\* the site's used_bytes is the sum of the sizes of the files under its root.
C17_UsedBytesIsDiskUsage ==
    \A name \in DOMAIN sites :
        (\A r \in FReqs : freq[r].pc \in {"free", "done"} \/ freq[r].site.name # name)
            => sites[name].used_bytes = DiskUsage(name)

C16_UsedBytesNeverNegative ==
    /\ \A name \in DOMAIN sites :
          /\ sites[name].used_bytes >= 0
          /\ ~ledger.clamped[name] => sites[name].used_bytes = ledger.requested[name]
          /\ sites[name].used_bytes >= ledger.requested[name]
    /\ ledger.name \in DOMAIN sites =>
          LET used == sites[ledger.name].used_bytes
          IN  /\ ledger.op = "increment" => used = ledger.before + ledger.amount
              /\ (ledger.op = "decrement" /\ ledger.amount > ledger.before) => used = 0
              /\ (ledger.op = "decrement" /\ ledger.amount <= ledger.before) =>
                    used = ledger.before - ledger.amount

\* C16 witness: a decrement larger than what a site had used has left the
\* counter at 0, after increments had raised it.
C16_Witness ==
    /\ ledger.op = "decrement"
    /\ ledger.name \in DOMAIN sites
    /\ ledger.before > 0
    /\ ledger.amount > ledger.before
    /\ sites[ledger.name].used_bytes = 0

\* ------------------------------------------------ claims about the site handlers
\* C19 as stated: when the proxy call of a create fails, the request is
\* answered with a 5xx status and, at that answer, the site's directory does
\* not exist, the registry has no row of the name and the proxy holds no
\* route of it.
C19_FailedCreateLeavesNothing ==
    [][\A r \in SReqs :
          (sreq[r].pc = "addSite" /\ sreq[r].call = "error" /\ sreq'[r].pc = "done") =>
              /\ sreq'[r].status >= 500
              /\ resolve(<<sreq[r].sitePath>>) \notin dirs'
              /\ sreq[r].name \notin DOMAIN sites'
              /\ \A i \in 1..Len(routes') :
                    routes'[i].id # <<"s", "f", "-">> \o sreq[r].name]_vars

\* C20 as stated: with the sync script and without it, when a create is
\* answered 201 the proxy holds a route of the site.
C20_RouteBeforeSuccess ==
    \A r \in SReqs :
        (sreq[r].op = "create" /\ sreq[r].status = 201) => RoutesOf(sreq[r].name) # {}


\* The names of the sites the proxy holds a route of.
Routed == {SubSeq(routes[i].id, 4, Len(routes[i].id)) : i \in 1..Len(routes)}

\* No site request is between its first step and its answer, r aside.
OthersIdle(r) == \A q \in SReqs \ {r} : sreq[q].pc \in {"free", "done"}

\* C21 as stated: when a create, a delete or an auth update is answered with
\* success (and no other site request is under way), the sites the proxy
\* holds a route of are the sites of the registry: no route without a row, no
\* row without a route.
C21_RoutesAreTenants ==
    [][\A r \in SReqs :
          (/\ sreq[r].pc \notin {"free", "done"}
           /\ sreq'[r].pc = "done"
           /\ sreq'[r].status < 300
           /\ OthersIdle(r)) => Routed' = DOMAIN sites']_vars

\* C22 as stated: a delete that removes the row of a site has had the route
\* removed by the proxy before (the proxy answered that it removed it or that
\* it had none); a delete whose route removal failed otherwise is answered
\* with an error and leaves the directories, the files, the registry and the
\* routes as they were.
C22_RouteRemovedBeforeRow ==
    [][\A r \in SReqs :
          (sreq[r].pc = "removeSite" /\ sreq'[r].pc = "done") =>
              /\ sreq[r].name \notin DOMAIN sites' =>
                    sreq[r].call \in {"ok", "notfound"}
              /\ sreq[r].call = "error" =>
                    /\ sreq'[r].status >= 500
                    /\ UNCHANGED <<sites, files, dirs, routes>>]_vars

\* C23: an answer of 404 to the removal of a route is a success. The proxy,
\* asked to remove a route it does not hold, leaves its routes alone; a delete
\* so answered goes on to remove the directory and the row and is answered
\* 200, also when the same route was removed just before; an auth update so
\* answered goes on to post the new route.
C23_NotFoundIsSuccess ==
    [][\A r \in SReqs :
          LET before == sreq[r]
              after == sreq'[r]
          IN  /\ (before.call = "sent" /\ after.call = "notfound") =>
                    UNCHANGED routes
              /\ (before.call = "notfound" /\ after # before) =>
                    /\ after.status < 500
                    /\ before.pc = "removeSite" =>
                          /\ after.pc = "done"
                          /\ after.status = 200
                          /\ before.name \notin DOMAIN sites'
                          /\ resolve(<<before.sitePath>>) \notin dirs'
                    /\ before.pc = "updateRemove" =>
                          /\ after.pc = "updateAdd"
                          /\ after.call = "sent"]_vars

\* C23 witness: two deletes of one site have both been answered 200, the
\* proxy having removed the route for one and answered 404 to the other.
C23_Witness ==
    \E r, q \in SReqs :
        /\ sreq[r].op = "delete" /\ sreq[r].status = 200 /\ sreq[r].call = "ok"
        /\ sreq[q].op = "delete" /\ sreq[q].status = 200 /\ sreq[q].call = "notfound"
        /\ sreq[q].name = sreq[r].name

\* C24 as stated: when the route of a site the proxy already holds a route of
\* is posted again, the proxy answers without an error and its routes are
\* what they were; it never holds two routes of one identifier.
C24_AddIsIdempotent ==
    [][\A r \in SReqs :
          (/\ sreq[r].pc \in {"addSite", "updateAdd"}
           /\ sreq[r].call = "sent"
           /\ sreq'[r].call # "sent"
           /\ RoutesOf(sreq[r].name) # {}) =>
              /\ sreq'[r].call = "ok"
              /\ routes' = routes]_vars

\* No site request on the name is between its first step and its answer.
Settled(name) ==
    \A r \in SReqs : sreq[r].name = name => sreq[r].pc \in {"free", "done"}

\* C25 as stated: the proxy never holds two routes of one site, and once the
\* requests on a name are answered there is no route of it without a row and
\* no row of it without its directory. (A row without a route is left out: one
\* request alone leaves it when the proxy refuses the route an auth update
\* posts again, or when the sync script is in use.)
C25_AsIfSerial ==
    \A n \in SiteNames \cup ReqSiteNames :
        /\ Cardinality(RoutesOf(n)) <= 1
        /\ Settled(n) =>
              /\ RoutesOf(n) # {} => n \in DOMAIN sites
              /\ n \in DOMAIN sites => resolve(<<sites[n].path>>) \in dirs

\* The handlers resume once the call they await has settled; nothing makes
\* the proxy answer.
SpecSitesFair ==
    /\ InitSites
    /\ [][NextSites]_vars
    /\ \A r \in SReqs :
          /\ WF_vars(CreateResume(r))
          /\ WF_vars(DeleteResume(r))
          /\ WF_vars(UpdateAfterRemove(r))
          /\ WF_vars(UpdateResume(r))
          /\ WF_vars(SiteRespond(r))

\* C26 as stated: a request that has sent a call to the proxy is answered in
\* the end, whether the proxy answers the call or not.
C26_ProxyCallTimesOut ==
    \A r \in SReqs : (sreq[r].call = "sent") ~> (sreq[r].pc = "done")


\* ------------------------------------------ claims about the write pipeline
\* C27 as stated: a write request does its filesystem work only after the
\* rate-limit check has admitted it (the limiter's store holds a timestamp),
\* after safePath has accepted its path and, for an upload, after its size
\* has been reserved in used_bytes; nothing is reserved for a request whose
\* path is rejected.
C27_StagesInOrder ==
    [][\A r \in FReqs :
          LET before == freq[r]
              after == freq'[r]
          IN  /\ after.fsOps > before.fsOps =>
                    /\ \E k \in DOMAIN requests : Len(requests[k]) > 0
                    /\ after.target \notin {Unset, Null}
                    /\ after.op = "upload" =>
                          sites'[after.site.name].used_bytes >= after.size
              /\ (before.target = Unset /\ after.target = Null) =>
                    sites' = sites]_vars

\* ------------------------------------------- more claims about safePath
\* C28 as stated: a userPath with a NUL character in it is rejected.
C28_NulRejected ==
    (SafePathReturned /\ \E i \in 1..Len(spUser) : spUser[i] = NUL) =>
        spResult = Null

EndsWithSep(p) == Len(p) > 0 /\ p[Len(p)] = "/"

\* A relative userPath that ends in a separator and never climbs above the
\* root has been given to safePath.
TrailingInside ==
    /\ SafePathReturned
    /\ EndsWithSep(spUser)
    /\ ~isAbsolute(spUser)
    /\ ~Climbs(spUser)

\* C29 as stated: a userPath that ends in a separator and stays inside the
\* root is accepted, and the path returned ends in the separator too.
C29_Original ==
    TrailingInside => (spResult # Null /\ EndsWithSep(spResult))

\* C29 as amended: a userPath that ends in a separator and stays inside the
\* root is accepted, and the path returned is the one returned for the same
\* userPath without its last separator: it does not end in a separator.
C29_TrailingSeparatorDropped ==
    TrailingInside =>
        /\ spResult # Null
        /\ ~EndsWithSep(spResult)
        /\ spResult = safePath(spBase, SubSeq(spUser, 1, Len(spUser) - 1))

\* C29 witness: "a/" has been accepted and the result is the resolved root
\* followed by "/a".
C29_Witness ==
    /\ spUser = <<"a", "/">>
    /\ spResult = resolve(<<spBase>>) \o <<"/", "a">>

\* Where `user` leads from the directory `base`, and that directory, as lists
\* of names from the filesystem root.
RootOf(base) == IF isAbsolute(base) THEN Walk(<<>>, Split(base))
                ELSE Walk(Walk(<<>>, Split(Cwd)), Split(base))

TargetOf(base, user) == IF isAbsolute(user) THEN Walk(<<>>, Split(user))
                        ELSE Walk(RootOf(base), Split(user))

\* C30: in the upload and delete-file handlers safePath answers with a value
\* for every pair of strings: null exactly when the path does not lead to the
\* site root or below it, and an absolute path otherwise; the handler answers
\* 400 "Invalid path" exactly when the value is null.
C30_NullBecomes400 ==
    [][\A r \in FReqs :
          LET before == freq[r]
              after == freq'[r]
              inside == IsSegPrefix(RootOf(after.site.path),
                                    TargetOf(after.site.path, after.rel))
          IN  (before.target = Unset /\ after.target # Unset) =>
                  /\ after.target = Null \/ isAbsolute(after.target)
                  /\ after.target = Null <=> ~inside
                  /\ after.target = Null <=>
                        (after.pc = "done" /\ after.status = 400
                            /\ after.error = "Invalid path")]_vars

\* C30 witness: a file delete whose path leaves the site root has been
\* answered 400 while an upload into the root has been answered 201.
C30_Witness ==
    \E r, q \in FReqs :
        /\ freq[r].op = "delete"
        /\ Climbs(freq[r].rel)
        /\ freq[r].target = Null
        /\ freq[r].status = 400
        /\ freq[q].op = "upload"
        /\ freq[q].target \notin {Unset, Null}
        /\ freq[q].status = 201


\* ------------------------------------------------- claims about the sweep
\* What a sweep over the limiter's window leaves of a store.
SweptBy(m, t, w) ==
    [k \in {j \in DOMAIN m : Len(FilterRecent(m[j], t, w)) # 0} |->
        FilterRecent(m[k], t, w)]

\* C31 as stated: a sweep removes exactly the keys with no timestamp inside
\* the limiter's trailing window and leaves every other key with exactly its
\* timestamps inside that window; after it no key has an empty window.
C31_SweepKeepsWindow ==
    [][nextSweep' # nextSweep =>
          /\ requests' = SweptBy(requests, now, windowMs)
          /\ \A k \in DOMAIN requests' : Len(requests'[k]) > 0]_vars


\* The identity keys of the requests.
Keys == {KeyOf(h) : h \in Headers}

\* Key k is in the store and its last timestamp is out of the limiter's
\* window and of the sweep's; a sweep is still to come before the clock stops.
AgedOut(k) ==
    /\ k \in DOMAIN requests
    /\ FilterRecent(requests[k], now, windowMs) = <<>>
    /\ FilterRecent(requests[k], now, EnvWindow) = <<>>
    /\ nextSweep <= MaxTime

\* Key k is not in the store, or it has sent a request again.
EvictedOrBack(k) ==
    \/ k \notin DOMAIN requests
    \/ FilterRecent(requests[k], now, windowMs) # <<>>

\* C32: a key whose last timestamp has aged out of the window is in the end
\* no longer in the store, unless it sends a request again.
C32_IdleKeyEvicted ==
    \A k \in Keys : AgedOut(k) ~> EvictedOrBack(k)

\* C32 witness: a request that was admitted is still with the downstream
\* handlers after a sweep has removed its key from the store.
C32_Witness ==
    \E r \in Reqs :
        /\ req[r].pc = "next"
        /\ req[r].key \notin DOMAIN requests
        /\ nextSweep > SweepEvery


\* Whether the sequence a is what is left of b when elements are taken off
\* its front.
IsSuffix(a, b) ==
    Len(a) <= Len(b) /\ a = SubSeq(b, Len(b) - Len(a) + 1, Len(b))

\* C38: when a request of key k was rejected at time t with Retry-After = r
\* seconds and no request of k has been admitted since (the stored window of
\* k holds nothing but timestamps the rejected request saw), a request of k
\* that arrives at t + 1000 * r milliseconds or later is admitted.
C38_RetryAfterIsEnough ==
    [][\A r, q \in Reqs :
          (/\ req[r].pc = "free"
           /\ req'[r].pc # "free"
           /\ req[q].pc = "rejected"
           /\ req[q].key = req'[r].key
           /\ IsSuffix(StoredWindow(requests, req[q].key), req[q].recent)
           /\ now * UnitMs >= req[q].at * UnitMs + 1000 * req[q].retryAfter)
          => (req'[r].pc = "next" /\ req'[r].status # 429)]_vars

\* C38 witness: a request of a key is admitted while an earlier request of
\* the key, rejected with a Retry-After that has since run out, has not been
\* answered yet.
C38_Witness ==
    \E r, q \in Reqs :
        /\ req[q].pc = "rejected"
        /\ req[r].pc = "next"
        /\ req[r].key = req[q].key
        /\ req[r].key \in DOMAIN requests
        /\ LET window == requests[req[r].key]
           IN  window[Len(window)] * UnitMs
                  >= req[q].at * UnitMs + 1000 * req[q].retryAfter


RECURSIVE Total(_)
Total(seqs) == IF Len(seqs) = 0 THEN 0 ELSE Len(Head(seqs)) + Total(Tail(seqs))

\* The keys in some order.
KeyList == CHOOSE list \in [1..Cardinality(Keys) -> Keys] :
              {list[i] : i \in 1..Cardinality(Keys)} = Keys

\* Nothing admitted since the start can have left a window.
NoExpiry == now < windowMs /\ now < EnvWindow

\* C40: getRateLimitStats reports as keys the number of identities that have
\* something stored and as totalRequests the number of stored timestamps of
\* all of them; while nothing has expired these are the number of identities
\* admitted and the number of admitted requests (since the store was last
\* cleared). clearRateLimits makes both 0, and a request arriving at a
\* cleared store is admitted with maxRequests - 1 remaining.
C40_StatsCountStore ==
    [][/\ getRateLimitStats'.keys =
             Cardinality({k \in Keys : Len(StoredWindow(requests', k)) > 0})
       /\ getRateLimitStats'.totalRequests =
             Total([i \in 1..Len(KeyList) |-> StoredWindow(requests', KeyList[i])])
       /\ NoExpiry' =>
             /\ getRateLimitStats'.keys =
                   Cardinality({k \in Keys : Len(admitted'[k]) > 0})
             /\ getRateLimitStats'.totalRequests =
                   Total([i \in 1..Len(KeyList) |-> admitted'[KeyList[i]]])
       /\ ClearRateLimits =>
             getRateLimitStats' = [keys |-> 0, totalRequests |-> 0]
       /\ \A r \in Reqs :
             (requests = << >> /\ req[r].pc = "free" /\ req'[r].pc # "free") =>
                 /\ req'[r].pc = "next"
                 /\ req'[r].xRemaining = maxRequests - 1]_vars

\* C40 witness: the store was cleared while an admitted request of one key
\* was with the downstream handlers; since then another key was admitted
\* twice, and the statistics are one key and two requests.
C40_Witness ==
    /\ getRateLimitStats = [keys |-> 1, totalRequests |-> 2]
    /\ nextSweep = SweepEvery
    /\ \E r \in Reqs :
          /\ req[r].pc = "next"
          /\ req[r].key \notin DOMAIN requests


\* -------------------------------------------- claims about tenant isolation
\* The files at or under the root of a site, with their contents, and the
\* directories there.
FilesUnder(fs, root) ==
    [p \in {q \in DOMAIN fs : q = root \/ UnderBase(q, root)} |-> fs[p]]

DirsUnder(ds, root) == {q \in ds : q = root \/ UnderBase(q, root)}

\* C33: a step of an upload or of a file delete addressed to one site leaves
\* the files and the directories at and under the root of every other site
\* as they were.
C33_OtherTenantsUntouched ==
    [][\A r \in FReqs :
          freq'[r] # freq[r] =>
              \A b \in DOMAIN sites :
                  b # freq'[r].site.name =>
                      LET root == resolve(<<sites[b].path>>)
                      IN  /\ FilesUnder(files', root) = FilesUnder(files, root)
                          /\ DirsUnder(dirs', root) = DirsUnder(dirs, root)]_vars

\* C33 witness: a file delete addressed to site a with the path "../aa/a" has
\* been refused while site aa has its file a.
C33_Witness ==
    /\ resolve(<<getSitePath(SITES_ROOT, <<"a", "a">>), <<"a">>>>) \in DOMAIN files
    /\ \E r \in FReqs :
          /\ freq[r].op = "delete"
          /\ freq[r].site.name = <<"a">>
          /\ freq[r].rel = <<".", ".", "/", "a", "a", "/", "a">>
          /\ freq[r].status = 400


\* ------------------------------------------------- claims about the routes
\* C34: the route the proxy is given for a site has the identifier "sf-" +
\* name and the host name.domain; its last handler is the file server rooted
\* at the site's directory, and before it comes the authentication handler
\* with the user and the password hash exactly when the site has a
\* credential; the routes of two different names differ in identifier and
\* in host.
C34_RouteShape ==
    [][\A r \in SReqs :
          (sreq[r].call = "sent" /\ sreq'[r].call = "ok" /\ Len(routes') > Len(routes)) =>
              LET slot == sreq[r]
                  route == routes'[Len(routes')]
                  n == Len(route.handle)
              IN  /\ route.id = <<"s", "f", "-">> \o slot.name
                  /\ route.host = slot.name \o <<".">> \o DOMAIN_NAME
                  /\ route.handle[n] = [handler |-> "file_server", root |-> slot.sitePath]
                  /\ IF slot.authHash # JsNull
                     THEN /\ n = 2
                          /\ route.handle[1] =
                                [handler |-> "authentication",
                                 username |-> slot.authUser,
                                 password |-> slot.authHash]
                     ELSE n = 1
                  /\ \A i \in 1..Len(routes') :
                        LET other == SubSeq(routes'[i].id, 4, Len(routes'[i].id))
                        IN  other # slot.name =>
                               /\ routes'[i].id # route.id
                               /\ routes'[i].host # route.host]_vars

\* C34 witness: the proxy holds the route of a site with a credential and the
\* route of another site without one.
C34_Witness ==
    \E i, j \in 1..Len(routes) :
        /\ routes[i].id # routes[j].id
        /\ Len(routes[i].handle) = 2
        /\ Len(routes[j].handle) = 1


\* The credential a route asks for: the user and the hash of its
\* authentication handler, nulls when it has none.
RouteAuth(route) ==
    IF Len(route.handle) = 2
    THEN [user |-> route.handle[1].username, hash |-> route.handle[1].password]
    ELSE [user |-> JsNull, hash |-> JsNull]

\* C35 as stated (in Admin API mode): when an auth update of a registered
\* site ends, with success or with an error, and no other site request is
\* under way, the proxy holds exactly one route of the site and the
\* credential of that route is the one in the registry.
C35_UpdateLeavesOneRoute ==
    [][\A r \in SReqs :
          (/\ ~useSyncScript
           /\ sreq[r].op = "update"
           /\ sreq[r].pc \in {"updateRemove", "updateAdd"}
           /\ sreq'[r].pc = "done"
           /\ OthersIdle(r)
           /\ sreq[r].name \in DOMAIN sites') =>
              /\ Cardinality(RoutesOf(sreq[r].name)) = 1
              /\ \A i \in RoutesOf(sreq[r].name) :
                    RouteAuth(routes[i]) =
                        [user |-> sites'[sreq[r].name].auth_user,
                         hash |-> sites'[sreq[r].name].auth_hash]]_vars


\* C36: a create for a name the registry has is answered 409 in its first
\* step; no call goes to the proxy, and the directories, the files, the
\* registry and the routes are left as they were.
C36_ExistingNameRefused ==
    [][\A r \in SReqs :
          (/\ sreq[r].pc = "free"
           /\ sreq'[r].op = "create"
           /\ sreq'[r].name \in DOMAIN sites) =>
              /\ sreq'[r].pc = "done"
              /\ sreq'[r].status = 409
              /\ sreq'[r].call \notin {"sent", "ok", "error"}
              /\ UNCHANGED <<sites, files, dirs, routes>>]_vars

\* C36 witness: a create has been answered 409 while the site of that name
\* is registered, has its directory and its route.
C36_Witness ==
    \E r \in SReqs :
        /\ sreq[r].op = "create"
        /\ sreq[r].status = 409
        /\ sreq[r].name \in DOMAIN sites
        /\ resolve(<<sites[sreq[r].name].path>>) \in dirs
        /\ RoutesOf(sreq[r].name) # {}


=============================================================================
